---------------------------- MODULE Spec2Model ----------------------------
(***************************************************************************)
(* Model of the invoice scraping-and-extraction pipeline of                *)
(* server/services/pythonRpaService.py (class InvoiceRPAService).          *)
(*                                                                         *)
(* Strings are sequences of one-character strings, so that the code's      *)
(* normalisation, file-name formatting and splitting are computed, not     *)
(* assumed.  A file name is a record [base, ext]: the text before the last *)
(* dot and the extension after it (os.path.splitext).                      *)
(***************************************************************************)
EXTENDS Integers, Sequences, FiniteSets, TLC

(***************************************************************************)
(* Bounds of the model.                                                    *)
(***************************************************************************)
MaxRuns == 2
MaxFaults == 1
MaxLen == 3

(***************************************************************************)
(* Pure string functions.                                                  *)
(***************************************************************************)
RECURSIVE Replace(_, _, _)
\* str.replace(c, r) for a one-character c and a replacement string r
Replace(s, c, r) ==
    IF s = <<>> THEN <<>>
    ELSE (IF Head(s) = c THEN r ELSE <<Head(s)>>) \o Replace(Tail(s), c, r)

\* the characters str.strip() removes, among those the model's strings use
Whitespace == {" ", "\t", "\n", "\r"}

RECURSIVE LStrip(_)
LStrip(s) ==
    IF s # <<>> /\ Head(s) \in Whitespace THEN LStrip(Tail(s)) ELSE s

RECURSIVE RStrip(_)
RStrip(s) ==
    IF s # <<>> /\ s[Len(s)] \in Whitespace
    THEN RStrip(SubSeq(s, 1, Len(s) - 1)) ELSE s

\* str.strip()
Strip(s) == RStrip(LStrip(s))

\* the character class of re.sub(r'[\\/*?:"<>|\n\r]+', "_", emisor)
Forbidden == {"\\", "/", "*", "?", ":", "\"", "<", ">", "|", "\n", "\r"}

RECURSIVE SubForbidden(_)
\* re.sub: every maximal run of forbidden characters becomes one underscore
SubForbidden(s) ==
    IF s = <<>> THEN <<>>
    ELSE IF Head(s) \in Forbidden
         THEN IF Len(s) > 1 /\ s[2] \in Forbidden
              THEN SubForbidden(Tail(s))
              ELSE <<"_">> \o SubForbidden(Tail(s))
         ELSE <<Head(s)>> \o SubForbidden(Tail(s))

RECURSIVE FirstField(_, _)
\* s.split(c)[0]: the text before the first c
FirstField(s, c) ==
    IF s = <<>> \/ Head(s) = c THEN <<>>
    ELSE <<Head(s)>> \o FirstField(Tail(s), c)

RECURSIVE SplitMax(_, _, _)
\* s.split(c, n): at most n splits, hence at most n + 1 parts
SplitMax(s, c, n) ==
    IF n = 0 THEN <<s>>
    ELSE LET k == Len(FirstField(s, c))
         IN  IF k = Len(s) THEN <<s>>
             ELSE <<SubSeq(s, 1, k)>> \o SplitMax(SubSeq(s, k + 2, Len(s)), c, n - 1)

\* str(counter) for the counters safe_rename can reach
Digits == <<"1", "2", "3", "4", "5", "6", "7", "8", "9">>


(***************************************************************************)
(* The source table: pages of rows.  A row carries the text of the cells   *)
(* the code reads (columns 1, 2 and 8), its number of cells, whether its   *)
(* visible text is non-empty, its number of buttons, and the kind of       *)
(* archive the portal serves for it:                                       *)
(*   "xml"     holds a document payload,                                   *)
(*   "noxml"   holds no payload,                                           *)
(*   "partial" holds a payload followed by a member whose extraction       *)
(*             raises (extractall fails part-way),                         *)
(*   "bad"     is not a readable archive (ZipFile raises).                 *)
(***************************************************************************)
Row(n, e, v, a) ==
    [cols |-> 9, numero |-> n, emisor |-> e, valor |-> v, text |-> TRUE,
     buttons |-> 4, arch |-> a]

\* a visually empty placeholder row of the table widget
Placeholder ==
    [cols |-> 0, numero |-> <<>>, emisor |-> <<>>, valor |-> <<>>, text |-> FALSE,
     buttons |-> 0, arch |-> "noxml"]

\* a padding row of the table widget: a cell for every column, all empty
PadRow ==
    [cols |-> 9, numero |-> <<>>, emisor |-> <<>>, valor |-> <<>>, text |-> FALSE,
     buttons |-> 0, arch |-> "noxml"]

RowABC  == Row(<<"A">>, <<" ", "B", " ", "C", ".">>, <<"1", ",", "0", " ", "X">>, "xml")
RowABC3 == Row(<<"A">>, <<"B", " ", "C">>, <<"3">>, "xml")
RowDE   == Row(<<"D">>, <<"E">>, <<"2", ".", "5">>, "xml")
RowFG   == Row(<<"F">>, <<"G", ":", "/", "H">>, <<"7">>, "xml")
RowP    == Row(<<"P">>, <<"Q", " ", "R">>, <<"4">>, "partial")
RowN    == Row(<<"N">>, <<"O", " ", "M">>, <<"5">>, "noxml")
RowBad  == Row(<<"K">>, <<"L", " ", "J">>, <<"6">>, "bad")
Row8    == [Row(<<"S">>, <<"T">>, <<"8">>, "xml") EXCEPT !.cols = 8]
Row3b   == [Row(<<"U">>, <<"V">>, <<"9">>, "xml") EXCEPT !.buttons = 3]

\* lines 531-534: the identity the row processor computes from the cells
numero_documento(row) == Strip(row.numero)
emisor_(row) == Replace(Replace(Strip(row.emisor), " ", <<"_">>), ".", <<>>)
safe_emisor(row) == SubForbidden(emisor_(row))
valor_total(row) ==
    FirstField(Replace(Replace(Strip(row.valor), ",", <<>>), ".", <<>>), " ")

Identity(row) == <<numero_documento(row), safe_emisor(row), valor_total(row)>>

(***************************************************************************)
(* File names and directories.  The download directory is a sequence of    *)
(* files in the order of their inode change time (creation or rename), the *)
(* order os.path.getctime gives.  A file carries, as `inv`, the invoice    *)
(* whose download produced it: the row's identity and archive kind.        *)
(***************************************************************************)
Name(b, x) == [base |-> b, ext |-> x]

Names(dir) == {dir[i].name : i \in 1..Len(dir)}

\* os.path.exists
Exists(dir, name) == name \in Names(dir)

\* the set of ".zip" names a listing of the directory yields
ZipNames(dir) == {n \in Names(dir) : n.ext = "zip"}

\* the ".crdownload" names a listing of the directory yields
MarkerNames(dir) == {n \in Names(dir) : n.ext = "crdownload"}

FileOf(dir, name) == dir[CHOOSE i \in 1..Len(dir) : dir[i].name = name]

RECURSIVE Without(_, _)
\* the directory without the file of that name
Without(dir, name) ==
    IF dir = <<>> THEN <<>>
    ELSE IF Head(dir).name = name THEN Without(Tail(dir), name)
         ELSE <<Head(dir)>> \o Without(Tail(dir), name)

\* os.rename(src, dst): dst replaces any file of that name, ctime is now
OsRename(dir, src, dst) ==
    Append(Without(Without(dir, src), dst), [name |-> dst, inv |-> FileOf(dir, src).inv])

\* a watcher that forgets its baseline
NewFilesAll(current_files, before_files) == current_files

\* line 253: new_files = list(current_files - before_files)

NewFiles(current_files, before_files) == current_files \ before_files

\* line 255: max(new_files, key=os.path.getctime)
MaxCtime(dir, names) ==
    dir[CHOOSE i \in 1..Len(dir) :
            /\ dir[i].name \in names
            /\ \A j \in 1..Len(dir) : dir[j].name \in names => j <= i].name

\* lines 266-273: the first free name base_1, base_2, ...
Suffixed(dest, k) == Name(dest.base \o <<"_">> \o <<Digits[k]>>, dest.ext)

\* a rename that always takes the destination name
rename_overwriting(dir, dest) == dest

\* lines 260-273: the name safe_rename gives the file
safe_rename(dir, dest) ==
    IF ~Exists(dir, dest) THEN dest
    ELSE Suffixed(dest, CHOOSE k \in 1..Len(Digits) :
                          /\ ~Exists(dir, Suffixed(dest, k))
                          /\ \A j \in 1..(k - 1) : Exists(dir, Suffixed(dest, j)))

\* an archive name that carries all three fields of the identity
CanonicalWithValue(row) ==
    Name(numero_documento(row) \o <<"_">> \o safe_emisor(row) \o <<"_">>
           \o valor_total(row), "zip")

\* line 634: f"{numero_documento}_{safe_emisor}.zip"
Canonical(row) == Name(numero_documento(row) \o <<"_">> \o safe_emisor(row), "zip")

(***************************************************************************)
(* The tracking stores: one table each, PRIMARY KEY (numero_documento,     *)
(* emisor, valor_total).                                                   *)
(***************************************************************************)
Keys(db) == {r.key : r \in db}

\* a query that matches no stored row
NeverMatches(db, key) == FALSE

\* lines 538-543: SELECT 1 ... WHERE the three key columns match

AlreadyDownloaded(db, key) == key \in Keys(db)

\* a store whose table is created anew at every opening
init_database_fresh(db) == {}

\* lines 204-233: CREATE TABLE IF NOT EXISTS keeps the rows already stored
init_database(db) == db

\* an insert into a table without the primary key
InsertPlain(db, rec) == db \cup {rec}

\* INSERT OR REPLACE: the stored row of that key is replaced
InsertOrReplace(db, rec) == {r \in db : r.key # rec.key} \cup {rec}

\* INSERT OR IGNORE (lines 639-644, 738-743) followed by commit
InsertOrIgnore(db, rec) == IF rec.key \in Keys(db) THEN db ELSE db \cup {rec}

(***************************************************************************)
(* State.                                                                  *)
(***************************************************************************)
VARIABLES
    table,            \* the portal's paginated table (never changes)
    faults,           \* environment failures and kills that may still happen
    run,              \* number of runs of run_import_process started
    pc,               \* position of the process
    result,           \* outcome of the last run
    page, idx,        \* current page of the table and row in it
    stats,            \* self.stats counters
    dbDownloads,      \* rows of downloaded_invoices in invoices.db
    dbXml,            \* rows of downloaded_invoices in invoices_xml.db
    dlDir,            \* files of the download directory, by ctime
    scratch,          \* __temp_extract__: whether it exists, and its files
    xmlDir,           \* files of the document directory
    dls,              \* downloads the browser has in flight
    nDl,              \* downloads the browser has started so far
    existing_zips,    \* download_invoice: the baseline listing
    crdownloads,      \* wait_for_new_zip: whether listing one saw a marker
    polled,           \* wait_for_new_zip: whether one poll has completed
    downloaded_zip,   \* download_invoice: the watcher's path, then final_path
    todo, cur,        \* sweep: names still to visit, name being handled
    xml_found,        \* extract_xml_files: local flag
    triggers,         \* clicks on the download control in this run
    produced,         \* archives renamed to their canonical name in this run
    newRecs,          \* DownloadRecords inserted in this run
    extracted_count,  \* extract_xml_files: local counter
    imported_count,   \* import_xml_to_database: local counter
    newDocs,          \* DocumentRecords inserted in this run
    faulted,          \* the phases of this run in which an item failed
    rowFail,          \* a row of this run failed before its record was inserted
    sweepClean,       \* this run's row sweep visited every row, none failing so
    clean,            \* some earlier run's row sweep did
    prevOk,           \* the previous run returned success
    orphans,          \* documents a kill left between insert and delete
    killedAt,         \* position at which the last kill ended a run
    results,          \* main: the RESULT records the process has printed
    exit_status,      \* main: the exit status of the process, -1 while it runs
    progress,         \* self.stats['progress']: the percentage last emitted
    total_zips,       \* extract_xml_files: archives counted before the sweep
    total_xmls,       \* import_xml_to_database: documents counted before it
    arg,              \* function harness: the row the functions are applied to
    norm,             \* function harness: successive normalization results
    names             \* function harness: the file names derived for the row

envVars   == <<table, faults>>
posVars   == <<page, idx>>
storeVars == <<dbDownloads, dbXml>>
fileVars  == <<dlDir, scratch, xmlDir>>
watchVars == <<existing_zips, crdownloads, polled, downloaded_zip>>
sweepVars == <<todo, cur, xml_found>>
countVars == <<triggers, produced, newRecs, extracted_count, imported_count, newDocs>>
ghostVars == <<faulted, rowFail, sweepClean, clean, prevOk, orphans, killedAt>>
outVars   == <<results, exit_status>>
progVars  == <<progress, total_zips, total_xmls>>
fnVars    == <<arg, norm, names>>

vars == <<table, faults, run, pc, result, page, idx, stats, dbDownloads,
          dbXml, dlDir, scratch, xmlDir, dls, nDl, existing_zips, crdownloads,
          polled, downloaded_zip, todo, cur, xml_found, triggers, produced,
          newRecs, extracted_count, imported_count, newDocs, faulted, rowFail,
          sweepClean, clean, prevOk, orphans, killedAt, results, exit_status,
          arg, norm, names, progress,
          total_zips, total_xmls>>

NoName == Name(<<>>, "")
NoScratch == [exists |-> FALSE, files |-> {}]
NoNames == [archive |-> NoName, document |-> NoName, parts |-> <<>>]
ZeroStats == [total_invoices |-> 0, processed_invoices |-> 0,
              successful_imports |-> 0, failed_imports |-> 0]

Running == pc \notin {"idle", "done"}

\* the row the row loop is at
CurRow == table[page][idx]

\* an environment failure happens here
Fault == /\ faults > 0
         /\ faults' = faults - 1

NoFault == faults' = faults

(***************************************************************************)
(* Initial states: a table, a budget of environment failures and kills,    *)
(* and the records an earlier run left in the two stores.  Both            *)
(* directories exist and are empty (lines 73-74).                          *)
(***************************************************************************)
\* the rows an earlier run has downloaded, extracted and ingested
PreRows == {RowFG}

\* the end-to-end table: pages of 3 and 1 data rows, one row already recorded
EndToEnd == <<<<RowABC, RowDE, Placeholder, RowFG>>, <<RowABC3>>>>

SmallTables ==
    { <<<<RowABC, RowABC3>>>>,
      <<<<RowP, RowN>>>>,
      <<<<RowP>>, <<RowDE>>>>,
      <<<<RowDE>>, <<Placeholder>>, <<RowN>>>>,
      <<<<Row8, Row3b, RowBad>>>>,
      <<<<Placeholder>>, <<RowDE>>>>,
      <<<<RowDE>>, <<PadRow>>, <<RowABC3>>>> }

Scenarios ==
    {[table |-> EndToEnd, faults |-> 0, pre |-> PreRows]}
    \cup {[table |-> t, faults |-> f, pre |-> {}] :
            t \in SmallTables, f \in 0..MaxFaults}

\* the DownloadRecord an earlier run inserted for a row
PreRecord(row) == [key |-> Identity(row), filename |-> Canonical(row), at |-> 0]

\* the DocumentRecord that earlier run inserted for the row's document
PreDocument(row) ==
    [key |-> SplitMax(Canonical(row).base, "_", 2), xml_content |-> Identity(row),
     at |-> 0]

\* the state of a process that has not started a run, and of the directories
Constructed ==
    /\ run = 0
    /\ pc = "idle"
    /\ result = "none"
    /\ page = 1
    /\ idx = 1
    /\ stats = ZeroStats
    /\ dlDir = <<>>
    /\ scratch = NoScratch
    /\ xmlDir = {}
    /\ dls = {}
    /\ nDl = 0
    /\ existing_zips = {}
    /\ crdownloads = FALSE
    /\ polled = FALSE
    /\ downloaded_zip = NoName
    /\ todo = {}
    /\ cur = NoName
    /\ xml_found = FALSE
    /\ triggers = 0
    /\ produced = 0
    /\ newRecs = 0
    /\ extracted_count = 0
    /\ imported_count = 0
    /\ newDocs = 0
    /\ faulted = {}
    /\ rowFail = FALSE
    /\ sweepClean = FALSE
    /\ clean = FALSE
    /\ prevOk = FALSE
    /\ orphans = {}
    /\ killedAt = "none"
    /\ results = <<>>
    /\ exit_status = -1
    /\ progress = 0
    /\ total_zips = 0
    /\ total_xmls = 0

Init ==
    /\ \E sc \in Scenarios :
         /\ table = sc.table
         /\ faults = sc.faults
         /\ dbDownloads = {PreRecord(r) : r \in sc.pre}
         /\ dbXml = {PreDocument(r) : r \in sc.pre}
    /\ Constructed
    /\ arg = Placeholder
    /\ norm = <<>>
    /\ names = NoNames

(***************************************************************************)
(* run_import_process (lines 774-843) and main.                            *)
(***************************************************************************)
\* lines 345, 432: the percentage last emitted when the setup fails; the
\* driver setup emits none, the login emits 10 and the navigation 20
ProgressAtSetupFailure(e) ==
    CASE e = "Failed to setup WebDriver" -> progress
      [] e = "Failed to login to ERP" -> 10
      [] OTHER -> 20

\* lines 565-566: 40 + int((processed / total) * 40)
invoice_progress(st) ==
    IF st.total_invoices > 0
    THEN 40 + (st.processed_invoices * 40) \div st.total_invoices
    ELSE progress

\* lines 690-691: 70 + int((extracted_count / total_zips) * 15)
extract_progress(n, total) ==
    IF total > 0 THEN 70 + (n * 15) \div total ELSE progress

\* lines 750-751: 90 + int((imported_count / total_xmls) * 8)
import_progress(n, total) ==
    IF total > 0 THEN 90 + (n * 8) \div total ELSE progress

\* a new process: __init__ resets the statistics (lines 86-93)
StartRun ==
    /\ pc \in {"idle", "done"}
    /\ run < MaxRuns
    /\ run' = run + 1
    /\ pc' = "setup"
    /\ result' = "none"
    /\ page' = 1
    /\ idx' = 1
    /\ stats' = ZeroStats
    /\ existing_zips' = {}
    /\ crdownloads' = FALSE
    /\ polled' = FALSE
    /\ downloaded_zip' = NoName
    /\ todo' = {}
    /\ cur' = NoName
    /\ xml_found' = FALSE
    /\ triggers' = 0
    /\ produced' = 0
    /\ newRecs' = 0
    /\ extracted_count' = 0
    /\ imported_count' = 0
    /\ newDocs' = 0
    /\ faulted' = {}
    /\ rowFail' = FALSE
    /\ sweepClean' = FALSE
    /\ clean' = (clean \/ sweepClean)
    /\ prevOk' = (result = "success")
    /\ results' = <<>>
    /\ exit_status' = -1
    /\ progress' = 0
    /\ total_zips' = 0
    /\ total_xmls' = 0
    /\ UNCHANGED <<fnVars, envVars, storeVars, fileVars, dls, nDl, orphans, killedAt>>

\* lines 781-785, 830-833, 850-861: the record printed after "RESULT:"
RESULT(res, st) ==
    [success |-> (res = "success"), error |-> IF res = "success" THEN "" ELSE res,
     stats |-> st]

\* a process that always exits with status 0
ExitZero(success) == 0

\* lines 875-876 and the sys.exit(1) of main's error paths
ExitStatus(success) == IF success THEN 0 ELSE 1

\* a run that reports every failure as a failure of the driver setup
ReturnFirstMessage(res) ==
    /\ pc' = "done"
    /\ result' = IF res \in {"success", "killed"} THEN res
                 ELSE "Failed to setup WebDriver"
    /\ dls' = {}
    /\ results' = IF res = "killed" THEN results
                  ELSE Append(results, RESULT(result', stats))
    /\ exit_status' = IF res = "killed" THEN 137 ELSE ExitStatus(res = "success")

\* the run returns its result; cleanup (lines 765-772, 842-843) quits the
\* browser, which abandons the downloads in flight; main prints the RESULT
\* record and exits (lines 870-876).  A killed process prints nothing and
\* its status is that of the signal.
Return(res) ==
    /\ pc' = "done"
    /\ result' = res
    /\ dls' = {}
    /\ results' = IF res = "killed" THEN results
                  ELSE Append(results, RESULT(res, stats))
    /\ exit_status' = IF res = "killed" THEN 137 ELSE ExitStatus(res = "success")

\* the errors main reports without starting a run: argument count (849-863),
\* json.loads (878-892), the constructor's ValueError (55-60, 893-907)
MainErrors ==
    {"Usage: python3 pythonRpaService.py '<config_json>'",
     "Invalid JSON configuration", "Missing required config"}

\* main rejects its invocation: one RESULT record with zero counters, exit 1;
\* nothing on disk is touched and no service object exists, so the other
\* variables keep the values of the process before
MainRejects ==
    /\ pc \in {"idle", "done"}
    /\ \E e \in MainErrors :
         /\ result' = e
         /\ results' = <<RESULT(e, ZeroStats)>>
    /\ exit_status' = ExitStatus(FALSE)
    /\ pc' = "done"
    /\ UNCHANGED <<fnVars, progVars, envVars, run, posVars, stats, storeVars, fileVars, dls,
                   nDl, watchVars, sweepVars, countVars, ghostVars>>

\* lines 780-801: setup_driver, login_to_erp, navigate_to_invoices
Bootstrap ==
    /\ pc = "setup"
    /\ \/ /\ NoFault
          /\ pc' = "wait_rows"
          /\ progress' = 20
          /\ UNCHANGED <<result, dls, outVars>>
       \/ /\ Fault
          /\ \E e \in {"Failed to setup WebDriver", "Failed to login to ERP",
                       "Failed to navigate to invoices"} :
                /\ Return(e)
                /\ progress' = ProgressAtSetupFailure(e)
    /\ UNCHANGED <<fnVars, total_zips, total_xmls, table, run, posVars, stats, storeVars, fileVars, nDl,
                   watchVars, sweepVars, countVars, ghostVars>>

\* a poll that takes placeholder rows for data rows
AllRows(p) == 1..Len(table[p])

\* lines 498-500: the rows of the current page whose visible text is not empty
DataRows(p) == {i \in 1..Len(table[p]) : table[p][i].text}

\* lines 472-513: the frame, then the bounded poll for a non-empty row, then
\* the download store is opened
WaitRows ==
    /\ pc = "wait_rows"
    /\ \/ /\ DataRows(1) # {}
          /\ NoFault
          /\ dbDownloads' = init_database(dbDownloads)
          /\ pc' = "page"
          /\ progress' = 40
          /\ UNCHANGED <<result, dls, outVars>>
       \/ /\ DataRows(1) = {}
          /\ NoFault
          /\ Return("Failed to process invoice rows")
          /\ progress' = 35
          /\ UNCHANGED dbDownloads
       \/ /\ Fault
          /\ Return("Failed to process invoice rows")
          /\ progress' = 35
          /\ UNCHANGED dbDownloads
    /\ UNCHANGED <<fnVars, total_zips, total_xmls, table, run, posVars, stats, dbXml, fileVars, nDl,
                   watchVars, sweepVars, countVars, ghostVars>>

\* lines 516-523: list the rows of the page (placeholders included)
ListRows ==
    /\ pc = "page"
    /\ \/ /\ NoFault
          /\ idx' = 1
          /\ pc' = "row"
          /\ UNCHANGED <<result, dls, outVars>>
       \/ /\ Fault
          /\ Return("Failed to process invoice rows")
          /\ UNCHANGED idx
    /\ UNCHANGED <<fnVars, progVars, table, run, page, stats, storeVars, fileVars, nDl,
                   watchVars, sweepVars, countVars, ghostVars>>

\* a handler that leaves the row loop of the page (break instead of continue)
RowExceptionBreaks ==
    /\ stats' = [stats EXCEPT !.failed_imports = @ + 1]
    /\ idx' = Len(table[page]) + 1
    /\ pc' = "row"
    /\ faulted' = faulted \cup {"rows"}
    /\ rowFail' = TRUE

\* lines 574-577: an exception inside the row is counted and the loop goes on
RowException ==
    /\ stats' = [stats EXCEPT !.failed_imports = @ + 1]
    /\ idx' = idx + 1
    /\ pc' = "row"
    /\ faulted' = faulted \cup {"rows"}
    /\ rowFail' = TRUE

\* line 529 and 545: continue
RowContinue ==
    /\ idx' = idx + 1
    /\ pc' = "row"
    /\ UNCHANGED <<stats, faulted, rowFail>>

\* lines 525-551: one row, up to the call of download_invoice
ExamineRow ==
    /\ pc = "row"
    /\ idx <= Len(table[page])
    /\ \/ /\ Fault
          /\ RowException
       \/ /\ NoFault
          /\ IF CurRow.cols < 8
             THEN RowContinue
             ELSE IF CurRow.cols < 9
             THEN RowException
             ELSE IF AlreadyDownloaded(dbDownloads, Identity(CurRow))
             THEN RowContinue
             ELSE /\ stats' = [stats EXCEPT !.total_invoices = @ + 1]
                  /\ pc' = "dl_start"
                  /\ UNCHANGED <<idx, faulted, rowFail>>
    /\ UNCHANGED <<fnVars, progVars, outVars, table, run, result, page, storeVars, fileVars, dls, nDl,
                   watchVars, sweepVars, countVars, sweepClean, clean,
                   prevOk, orphans, killedAt>>

\* a row loop that counts every row download_invoice returns from as a success
RowReturnCountsSuccess(ok) ==
    /\ stats' = [stats EXCEPT !.successful_imports = @ + 1,
                              !.processed_invoices = @ + 1]
    /\ idx' = idx + 1
    /\ pc' = "row"
    /\ faulted' = IF ok THEN faulted ELSE faulted \cup {"rows"}
    /\ rowFail' = (rowFail \/ Identity(CurRow) \notin Keys(dbDownloads))
    /\ progress' = invoice_progress(stats')

\* lines 551-572: download_invoice has returned ok to the row loop
RowReturn(ok) ==
    /\ stats' = [stats EXCEPT
                   !.successful_imports = IF ok THEN @ + 1 ELSE @,
                   !.failed_imports = IF ok THEN @ ELSE @ + 1,
                   !.processed_invoices = @ + 1]
    /\ idx' = idx + 1
    /\ pc' = "row"
    /\ faulted' = IF ok THEN faulted ELSE faulted \cup {"rows"}
    /\ rowFail' = (rowFail \/ Identity(CurRow) \notin Keys(dbDownloads))
    /\ progress' = invoice_progress(stats')

(***************************************************************************)
(* download_invoice (lines 597-657).  Every exception inside it is caught  *)
(* at line 655 and makes it return False.                                  *)
(***************************************************************************)
\* lines 603-617: scroll to the row, count its buttons, list the baseline
DlStart ==
    /\ pc = "dl_start"
    /\ \/ /\ Fault
          /\ RowReturn(FALSE)
          /\ UNCHANGED existing_zips
       \/ /\ NoFault
          /\ IF CurRow.buttons < 4
             THEN /\ RowReturn(FALSE)
                  /\ UNCHANGED existing_zips
             ELSE /\ existing_zips' = ZipNames(dlDir)
                  /\ pc' = "dl_click1"
                  /\ UNCHANGED <<idx, stats, faulted, rowFail, progress>>
    /\ UNCHANGED <<fnVars, total_zips, total_xmls, outVars, table, run, result, page, storeVars, fileVars, dls, nDl,
                   crdownloads, polled, downloaded_zip, sweepVars, countVars,
                   sweepClean, clean, prevOk, orphans, killedAt>>

\* line 620: click the row's actions control
DlClickActions ==
    /\ pc = "dl_click1"
    /\ \/ /\ Fault
          /\ RowReturn(FALSE)
       \/ /\ NoFault
          /\ pc' = "dl_click2"
          /\ UNCHANGED <<idx, stats, faulted, rowFail, progress>>
    /\ UNCHANGED <<fnVars, total_zips, total_xmls, outVars, table, run, result, page, storeVars, fileVars, dls, nDl,
                   watchVars, sweepVars, countVars, sweepClean, clean,
                   prevOk, orphans, killedAt>>

\* the name the browser gives its n-th download
BrowserBase(n) == <<"z", Digits[n]>>

\* lines 623-627: wait (5 s) for the download control and click it; the
\* browser then has one more download to perform
DlClickDownload ==
    /\ pc = "dl_click2"
    /\ \/ /\ Fault
          /\ RowReturn(FALSE)
          /\ UNCHANGED <<dls, nDl, polled, triggers>>
       \/ /\ NoFault
          /\ nDl < Len(Digits)
          /\ nDl' = nDl + 1
          /\ dls' = dls \cup {[base |-> BrowserBase(nDl + 1), stage |-> "pending",
                               inv |-> [id |-> Identity(CurRow), arch |-> CurRow.arch]]}
          /\ triggers' = triggers + 1
          /\ polled' = FALSE
          /\ pc' = "w_head"
          /\ UNCHANGED <<idx, stats, faulted, rowFail, progress>>
    /\ UNCHANGED <<fnVars, total_zips, total_xmls, outVars, table, run, result, page, storeVars, fileVars,
                   existing_zips, crdownloads, downloaded_zip, sweepVars, produced,
                   newRecs, extracted_count, imported_count, newDocs, sweepClean,
                   clean, prevOk, orphans, killedAt>>

(***************************************************************************)
(* wait_for_new_zip (lines 235-258).  Time is the environment's: once one  *)
(* poll has completed, the deadline may have passed at any loop test.  The *)
(* two directory listings of one poll are separate steps.                  *)
(***************************************************************************)
\* a watcher whose timeout is not caught by download_invoice
WaitHeadFatal ==
    /\ pc = "w_head"
    /\ \/ /\ NoFault
          /\ pc' = "w_list1"
          /\ UNCHANGED <<result, dls, outVars>>
       \/ /\ polled
          /\ Fault
          /\ Return("Failed to process invoice rows")
    /\ UNCHANGED <<fnVars, progVars, table, run, posVars, stats, storeVars, fileVars, nDl,
                   watchVars, sweepVars, countVars, ghostVars>>

\* line 245: while time.time() < deadline; line 258: raise TimeoutError
WaitHead ==
    /\ pc = "w_head"
    /\ \/ /\ NoFault
          /\ pc' = "w_list1"
          /\ UNCHANGED <<idx, stats, faulted, rowFail, progress>>
       \/ /\ polled
          /\ Fault
          /\ RowReturn(FALSE)
    /\ UNCHANGED <<fnVars, total_zips, total_xmls, outVars, table, run, result, page, storeVars, fileVars, dls, nDl,
                   watchVars, sweepVars, countVars, sweepClean, clean,
                   prevOk, orphans, killedAt>>

\* line 247: the listing for ".crdownload" files
WaitListMarkers ==
    /\ pc = "w_list1"
    /\ crdownloads' = (MarkerNames(dlDir) # {})
    /\ pc' = "w_list2"
    /\ UNCHANGED <<fnVars, progVars, outVars, envVars, run, result, posVars, stats, storeVars, fileVars, dls, nDl,
                   existing_zips, polled, downloaded_zip, sweepVars, countVars,
                   ghostVars>>

\* lines 248-256: the listing for ".zip" files, the test, the return or sleep
WaitListZips ==
    /\ pc = "w_list2"
    /\ LET new_files == NewFiles(ZipNames(dlDir), existing_zips)
       IN  IF new_files # {} /\ ~crdownloads
           THEN /\ downloaded_zip' = MaxCtime(dlDir, new_files)
                /\ pc' = "dl_rename"
                /\ UNCHANGED polled
           ELSE /\ polled' = TRUE
                /\ pc' = "w_head"
                /\ UNCHANGED downloaded_zip
    /\ UNCHANGED <<fnVars, progVars, outVars, envVars, run, result, posVars, stats, storeVars, fileVars, dls, nDl,
                   existing_zips, crdownloads, sweepVars, countVars, ghostVars>>

\* lines 633-635: rename the archive to its canonical name
DlRename ==
    /\ pc = "dl_rename"
    /\ LET final_path == safe_rename(dlDir, Canonical(CurRow))
       IN  /\ dlDir' = OsRename(dlDir, downloaded_zip, final_path)
           /\ downloaded_zip' = final_path
    /\ produced' = produced + 1
    /\ pc' = "dl_insert"
    /\ UNCHANGED <<fnVars, progVars, outVars, envVars, run, result, posVars, stats, storeVars, scratch, xmlDir,
                   dls, nDl, existing_zips, crdownloads, polled, sweepVars, triggers,
                   newRecs, extracted_count, imported_count, newDocs, ghostVars>>

\* lines 637-644: INSERT OR IGNORE the DownloadRecord, commit
DlInsert ==
    /\ pc = "dl_insert"
    /\ dbDownloads' = InsertOrIgnore(dbDownloads,
                         [key |-> Identity(CurRow), filename |-> downloaded_zip,
                          at |-> run])
    /\ newRecs' = newRecs + Cardinality(dbDownloads') - Cardinality(dbDownloads)
    /\ pc' = "dl_dismiss"
    /\ UNCHANGED <<fnVars, progVars, outVars, envVars, run, result, posVars, stats, dbXml, fileVars, dls, nDl,
                   watchVars, sweepVars, triggers, produced, extracted_count,
                   imported_count, newDocs, ghostVars>>

\* lines 646-653: dismiss the dialog, return True
DlDismiss ==
    /\ pc = "dl_dismiss"
    /\ \/ /\ Fault
          /\ RowReturn(FALSE)
       \/ /\ NoFault
          /\ RowReturn(TRUE)
    /\ UNCHANGED <<fnVars, total_zips, total_xmls, outVars, table, run, result, page, storeVars, fileVars, dls, nDl,
                   watchVars, sweepVars, countVars, sweepClean, clean,
                   prevOk, orphans, killedAt>>

(***************************************************************************)
(* The browser: a download first appears as a ".crdownload" marker and is  *)
(* renamed to its ".zip" name when complete.                               *)
(***************************************************************************)
BrowserCreateMarker ==
    /\ Running
    /\ \E d \in dls :
         /\ d.stage = "pending"
         /\ dlDir' = Append(dlDir, [name |-> Name(d.base, "crdownload"), inv |-> d.inv])
         /\ dls' = (dls \ {d}) \cup {[d EXCEPT !.stage = "marker"]}
    /\ UNCHANGED <<fnVars, progVars, outVars, envVars, run, pc, result, posVars, stats, storeVars, scratch, xmlDir,
                   nDl, watchVars, sweepVars, countVars, ghostVars>>

BrowserFinish ==
    /\ Running
    /\ \E d \in dls :
         /\ d.stage = "marker"
         /\ dlDir' = OsRename(dlDir, Name(d.base, "crdownload"), Name(d.base, "zip"))
         /\ dls' = dls \ {d}
    /\ UNCHANGED <<fnVars, progVars, outVars, envVars, run, pc, result, posVars, stats, storeVars, scratch, xmlDir,
                   nDl, watchVars, sweepVars, countVars, ghostVars>>

(***************************************************************************)
(* The page loop of process_invoice_rows (lines 516-591).                  *)
(***************************************************************************)
\* a page loop that stops after the first page it has swept
NextPageStopsEarly ==
    /\ pc = "row"
    /\ idx > Len(table[page])
    /\ NoFault
    /\ pc' = "ex_list"
    /\ sweepClean' = (page = Len(table) /\ ~rowFail)
    /\ UNCHANGED <<fnVars, progVars, outVars, table, run, result, posVars, stats, storeVars,
                   fileVars, dls, nDl, watchVars, sweepVars, countVars, faulted,
                   rowFail, clean, prevOk, orphans, killedAt>>

\* lines 579-591: after the last row, the "Siguiente" control; any failure
\* to find or click it ends the loop, and the sweep returns True
NextPage ==
    /\ pc = "row"
    /\ idx > Len(table[page])
    /\ \/ /\ page < Len(table)
          /\ NoFault
          /\ page' = page + 1
          /\ pc' = "page"
          /\ UNCHANGED <<sweepClean, faulted>>
       \/ /\ page < Len(table)
          /\ Fault
          /\ pc' = "ex_list"
          /\ faulted' = faulted \cup {"pages"}
          /\ UNCHANGED <<page, sweepClean>>
       \/ /\ page = Len(table)
          /\ NoFault
          /\ pc' = "ex_list"
          /\ sweepClean' = ~rowFail
          /\ UNCHANGED <<page, faulted>>
    /\ UNCHANGED <<fnVars, progVars, outVars, table, run, result, idx, stats, storeVars, fileVars, dls,
                   nDl, watchVars, sweepVars, countVars, rowFail, clean, prevOk,
                   orphans, killedAt>>

(***************************************************************************)
(* extract_xml_files (lines 659-711).  An exception while handling one     *)
(* archive is caught at line 703 and the sweep goes on.                    *)
(***************************************************************************)
\* lines 662-667: list the archives of the download directory
ExList ==
    /\ pc = "ex_list"
    /\ progress' = 70
    /\ \/ /\ NoFault
          /\ todo' = ZipNames(dlDir)
          /\ extracted_count' = 0
          /\ total_zips' = Cardinality(ZipNames(dlDir))
          /\ pc' = "ex_pick"
          /\ UNCHANGED <<result, dls, outVars>>
       \/ /\ Fault
          /\ Return("Failed to extract XML files")
          /\ UNCHANGED <<todo, extracted_count, total_zips>>
    /\ UNCHANGED <<fnVars, total_xmls, table, run, posVars, stats, storeVars, fileVars, nDl,
                   watchVars, cur, xml_found, triggers, produced, newRecs,
                   imported_count, newDocs, ghostVars>>

\* an extraction sweep that may hand over to ingestion before its listing
\* is exhausted
ExPickEarly ==
    /\ pc = "ex_pick"
    /\ \/ /\ pc' = "ing_list"
          /\ UNCHANGED <<todo, cur>>
       \/ \E f \in todo :
              /\ cur' = f
              /\ todo' = todo \ {f}
              /\ pc' = "ex_unpack"
    /\ UNCHANGED <<fnVars, progVars, outVars, envVars, run, result, posVars, stats, storeVars, fileVars, dls, nDl,
                   watchVars, xml_found, countVars, ghostVars>>

\* lines 667-670, 706-707: the next archive of the listing, in the arbitrary
\* order of os.listdir, or the end of the sweep
ExPick ==
    /\ pc = "ex_pick"
    /\ IF todo = {}
       THEN /\ pc' = "ing_list"
            /\ UNCHANGED <<todo, cur>>
       ELSE \E f \in todo :
              /\ cur' = f
              /\ todo' = todo \ {f}
              /\ pc' = "ex_unpack"
    /\ UNCHANGED <<fnVars, progVars, outVars, envVars, run, result, posVars, stats, storeVars, fileVars, dls, nDl,
                   watchVars, xml_found, countVars, ghostVars>>

\* the files extractall writes into the scratch directory for an archive
Members(inv) ==
    {[src |-> inv.id, xml |-> (inv.arch \in {"xml", "partial"})]}

\* an unpack whose failure ends the whole extraction sweep with an error
ExUnpackAborts ==
    /\ pc = "ex_unpack"
    /\ LET inv == FileOf(dlDir, cur).inv
       IN  IF inv.arch \in {"bad", "partial"}
           THEN /\ Return("Failed to extract XML files")
                /\ faulted' = faulted \cup {"extract"}
                /\ UNCHANGED scratch
           ELSE /\ scratch' = [exists |-> TRUE, files |-> scratch.files \cup Members(inv)]
                /\ pc' = "ex_scan"
                /\ UNCHANGED <<faulted, result, dls, outVars>>
    /\ UNCHANGED <<fnVars, progVars, envVars, run, posVars, stats, storeVars, dlDir, xmlDir,
                   nDl, watchVars, sweepVars, countVars, rowFail, sweepClean,
                   clean, prevOk, orphans, killedAt>>

\* lines 673-676: open the archive, makedirs(exist_ok=True), extractall
ExUnpack ==
    /\ pc = "ex_unpack"
    /\ LET inv == FileOf(dlDir, cur).inv
       IN  IF inv.arch = "bad"
           THEN /\ pc' = "ex_pick"
                /\ faulted' = faulted \cup {"extract"}
                /\ UNCHANGED scratch
           ELSE /\ scratch' = [exists |-> TRUE, files |-> scratch.files \cup Members(inv)]
                /\ IF inv.arch = "partial"
                   THEN /\ pc' = "ex_pick"
                        /\ faulted' = faulted \cup {"extract"}
                   ELSE /\ pc' = "ex_scan"
                        /\ UNCHANGED faulted
    /\ UNCHANGED <<fnVars, progVars, outVars, envVars, run, result, posVars, stats, storeVars, dlDir, xmlDir, dls,
                   nDl, watchVars, sweepVars, countVars, rowFail, sweepClean,
                   clean, prevOk, orphans, killedAt>>

\* shutil.move(src, dst) into the document directory: dst is replaced
MoveInto(dir, base, payload) ==
    {f \in dir : f.base # base} \cup {[base |-> base, inv |-> payload.src]}

\* lines 678-693: the first ".xml" of the scratch listing is moved to the
\* document directory under the archive's base name
ExScan ==
    /\ pc = "ex_scan"
    /\ LET xmls == {m \in scratch.files : m.xml}
       IN  IF xmls = {}
           THEN /\ NoFault
                /\ xml_found' = FALSE
                /\ pc' = "ex_rmtree"
                /\ UNCHANGED <<scratch, xmlDir, extracted_count, faulted, progress>>
           ELSE \E m \in xmls :
                  \/ /\ NoFault
                     /\ xmlDir' = MoveInto(xmlDir, cur.base, m)
                     /\ scratch' = [scratch EXCEPT !.files = @ \ {m}]
                     /\ xml_found' = TRUE
                     /\ extracted_count' = extracted_count + 1
                     /\ progress' = extract_progress(extracted_count', total_zips)
                     /\ pc' = "ex_rmtree"
                     /\ UNCHANGED faulted
                  \/ /\ Fault
                     /\ pc' = "ex_pick"
                     /\ faulted' = faulted \cup {"extract"}
                     /\ UNCHANGED <<scratch, xmlDir, xml_found, extracted_count, progress>>
    /\ UNCHANGED <<fnVars, total_zips, total_xmls, outVars, table, run, result, posVars, stats, storeVars, dlDir, dls,
                   nDl, watchVars, todo, cur, triggers, produced, newRecs,
                   imported_count, newDocs, rowFail, sweepClean,
                   clean, prevOk, orphans, killedAt>>

\* lines 695-701: remove the scratch directory; go on to delete the archive
\* only if a payload was found
ExRmtree ==
    /\ pc = "ex_rmtree"
    /\ scratch' = NoScratch
    /\ IF xml_found
       THEN /\ pc' = "ex_remove"
            /\ UNCHANGED faulted
       ELSE /\ pc' = "ex_pick"
            /\ faulted' = faulted \cup {"extract"}
    /\ UNCHANGED <<fnVars, progVars, outVars, envVars, run, result, posVars, stats, storeVars, dlDir, xmlDir, dls,
                   nDl, watchVars, sweepVars, countVars, rowFail, sweepClean,
                   clean, prevOk, orphans, killedAt>>

\* line 698: os.remove(zip_path)
ExRemove ==
    /\ pc = "ex_remove"
    /\ \/ /\ NoFault
          /\ dlDir' = Without(dlDir, cur)
          /\ UNCHANGED faulted
       \/ /\ Fault
          /\ faulted' = faulted \cup {"extract"}
          /\ UNCHANGED dlDir
    /\ pc' = "ex_pick"
    /\ UNCHANGED <<fnVars, progVars, outVars, table, run, result, posVars, stats, storeVars, scratch,
                   xmlDir, dls, nDl, watchVars, sweepVars, countVars, rowFail, sweepClean,
                   clean, prevOk, orphans, killedAt>>

(***************************************************************************)
(* import_xml_to_database (lines 713-763).  An exception while handling    *)
(* one file is caught at line 754 and the sweep goes on.                   *)
(***************************************************************************)
\* lines 716-722: open the document store, list the document directory
IngList ==
    /\ pc = "ing_list"
    /\ progress' = 90
    /\ \/ /\ NoFault
          /\ dbXml' = init_database(dbXml)
          /\ todo' = {Name(f.base, "xml") : f \in xmlDir}
          /\ imported_count' = 0
          /\ total_xmls' = Cardinality(xmlDir)
          /\ pc' = "ing_pick"
          /\ UNCHANGED <<result, dls, outVars>>
       \/ /\ Fault
          /\ Return("Failed to import XML to database")
          /\ UNCHANGED <<dbXml, todo, imported_count, total_xmls>>
    /\ UNCHANGED <<fnVars, total_zips, table, run, posVars, stats, dbDownloads, fileVars, nDl,
                   watchVars, cur, xml_found, triggers, produced, newRecs,
                   extracted_count, newDocs, ghostVars>>

\* a split that always yields a third part
PartsPadded(base) == SplitMax(base, "_", 2) \o <<<<>>>>

\* line 726: parts = base_name.split("_", 2)
Parts(base) == SplitMax(base, "_", 2)

\* lines 722-732, 757-759: the next document of the listing; a name of fewer
\* than three parts is skipped
IngPick ==
    /\ pc = "ing_pick"
    /\ IF todo = {}
       THEN /\ pc' = "finish"
            /\ UNCHANGED <<todo, cur>>
       ELSE \E f \in todo :
              /\ cur' = f
              /\ todo' = todo \ {f}
              /\ pc' = IF Len(Parts(f.base)) < 3 THEN "ing_pick" ELSE "ing_insert"
    /\ UNCHANGED <<fnVars, progVars, outVars, envVars, run, result, posVars, stats, storeVars, fileVars, dls, nDl,
                   watchVars, xml_found, countVars, ghostVars>>

DocOf(dir, name) == CHOOSE f \in dir : f.base = name.base

\* lines 731-743: read the document, INSERT OR IGNORE its record, commit
IngInsert ==
    /\ pc = "ing_insert"
    /\ \/ /\ NoFault
          /\ dbXml' = InsertOrIgnore(dbXml,
                         [key |-> Parts(cur.base), xml_content |-> DocOf(xmlDir, cur).inv,
                          at |-> run])
          /\ newDocs' = newDocs + Cardinality(dbXml') - Cardinality(dbXml)
          /\ pc' = "ing_remove"
          /\ UNCHANGED faulted
       \/ /\ Fault
          /\ pc' = "ing_pick"
          /\ faulted' = faulted \cup {"ingest"}
          /\ UNCHANGED <<dbXml, newDocs>>
    /\ UNCHANGED <<fnVars, progVars, outVars, table, run, result, posVars, stats, dbDownloads, fileVars,
                   dls, nDl, watchVars, sweepVars, triggers, produced, newRecs,
                   extracted_count, imported_count, rowFail, sweepClean,
                   clean, prevOk, orphans, killedAt>>

\* lines 745-746: os.remove(file_path)
IngRemove ==
    /\ pc = "ing_remove"
    /\ \/ /\ NoFault
          /\ xmlDir' = {f \in xmlDir : f.base # cur.base}
          /\ imported_count' = imported_count + 1
          /\ progress' = import_progress(imported_count', total_xmls)
          /\ UNCHANGED faulted
       \/ /\ Fault
          /\ faulted' = faulted \cup {"ingest"}
          /\ UNCHANGED <<xmlDir, imported_count, progress>>
    /\ pc' = "ing_pick"
    /\ UNCHANGED <<fnVars, total_zips, total_xmls, outVars, table, run, result, posVars, stats, storeVars, dlDir,
                   scratch, dls, nDl, watchVars, sweepVars, triggers, produced,
                   newRecs, extracted_count, newDocs, rowFail, sweepClean,
                   clean, prevOk, orphans, killedAt>>

\* lines 827-833: the run reports success
Finish ==
    /\ pc = "finish"
    /\ Return("success")
    /\ progress' = 100
    /\ UNCHANGED <<fnVars, total_zips, total_xmls, envVars, run, posVars, stats, storeVars, fileVars, nDl, watchVars,
                   sweepVars, countVars, ghostVars>>

\* the process is killed: what is on disk stays, the browser goes with it
Crash ==
    /\ Running
    /\ Fault
    /\ Return("killed")
    /\ orphans' = IF pc = "ing_remove" THEN orphans \cup {cur} ELSE orphans
    /\ killedAt' = pc
    /\ UNCHANGED <<fnVars, progVars, table, run, posVars, stats, storeVars, fileVars, nDl,
                   watchVars, sweepVars, countVars, faulted, rowFail, sweepClean,
                   clean, prevOk>>

Next ==
    \/ StartRun
    \/ MainRejects
    \/ Bootstrap
    \/ WaitRows
    \/ ListRows
    \/ ExamineRow
    \/ DlStart
    \/ DlClickActions
    \/ DlClickDownload
    \/ WaitHead
    \/ WaitListMarkers
    \/ WaitListZips
    \/ DlRename
    \/ DlInsert
    \/ DlDismiss
    \/ BrowserCreateMarker
    \/ BrowserFinish
    \/ NextPage
    \/ ExList
    \/ ExPick
    \/ ExUnpack
    \/ ExScan
    \/ ExRmtree
    \/ ExRemove
    \/ IngList
    \/ IngPick
    \/ IngInsert
    \/ IngRemove
    \/ Finish
    \/ Crash

Spec == Init /\ [][Next]_vars

(***************************************************************************)
(* The pure functions on their own: the normalization of lines 531-534     *)
(* applied to a cell text and then to its own result, and the file names   *)
(* download_invoice, extract_xml_files and import_xml_to_database derive   *)
(* for a row.  No run is started.                                          *)
(***************************************************************************)
\* the characters of the cell texts tried
Alphabet == {" ", "\t", "\n", ".", ",", "_", "/", "A"}

\* every text of at most MaxLen characters
Strings == UNION {[1..n -> Alphabet] : n \in 0..MaxLen}

\* the row of identity ("INV-001", "Acme_Corp", "12345")
RowINV ==
    Row(<<"I", "N", "V", "-", "0", "0", "1">>,
        <<"A", "c", "m", "e", " ", "C", "o", "r", "p">>,
        <<"1", "2", ",", "3", "4", "5">>, "xml")

Inputs == {Row(<<"A">>, s, s, "xml") : s \in Strings} \cup {RowINV}

InitFn ==
    /\ table = <<>>
    /\ faults = 0
    /\ dbDownloads = {}
    /\ dbXml = {}
    /\ Constructed
    /\ arg \in Inputs
    /\ norm = <<>>
    /\ names = NoNames

\* lines 532-534 applied to the cell texts, then to their own results
Normalize ==
    /\ Len(norm) < 2
    /\ LET row == IF norm = <<>> THEN arg
                  ELSE [arg EXCEPT !.emisor = norm[Len(norm)].emisor,
                                   !.valor = norm[Len(norm)].valor]
       IN  norm' = Append(norm, [emisor |-> safe_emisor(row),
                                 valor |-> valor_total(row)])
    /\ UNCHANGED <<progVars, envVars, run, pc, result, posVars, stats, storeVars, fileVars,
                   dls, nDl, watchVars, sweepVars, countVars, ghostVars, outVars,
                   arg, names>>

\* lines 670, 681: base_name = os.path.splitext(filename)[0]; f"{base_name}.xml"
DocumentName(archive) == Name(archive.base, "xml")

\* line 634, lines 670-681, lines 725-726: archive name, document name, parts
DeriveNames ==
    /\ names = NoNames
    /\ LET archive == Canonical(arg)
           document == DocumentName(archive)
       IN  names' = [archive |-> archive, document |-> document,
                     parts |-> Parts(document.base)]
    /\ UNCHANGED <<progVars, envVars, run, pc, result, posVars, stats, storeVars, fileVars,
                   dls, nDl, watchVars, sweepVars, countVars, ghostVars, outVars,
                   arg, norm>>

NextFn ==
    \/ Normalize
    \/ DeriveNames

SpecFn == InitFn /\ [][NextFn]_vars

(***************************************************************************)
(* Properties.                                                             *)
(***************************************************************************)
\* the positions inside download_invoice
DlPcs == {"dl_start", "dl_click1", "dl_click2", "w_head", "w_list1", "w_list2",
          "dl_rename", "dl_insert", "dl_dismiss"}

\* the row at idx is one the processor computes an identity for
RowHasIdentity(p, i) == i \in 1..Len(table[p]) /\ table[p][i].cols >= 9

\* the download store holds a record for the identity of that row
Recorded(p, i) == \E r \in dbDownloads : r.key = Identity(table[p][i])

\* C1: whenever the identity of the row being examined already has a
\* DownloadRecord, the row is skipped: download_invoice is not entered, no
\* control is clicked and no download starts for it, in whichever run; and
\* every click on the download control is for a row without a record.
C1_RecordedRowSkipped ==
    [][ /\ ( /\ pc = "row"
             /\ RowHasIdentity(page, idx)
             /\ Recorded(page, idx)
             /\ idx' # idx )
          => ( /\ pc' = "row"
               /\ idx' = idx + 1
               /\ triggers' = triggers
               /\ dls' = dls
               /\ stats'.total_invoices = stats.total_invoices )
        /\ (pc' \in DlPcs /\ pc \notin DlPcs) => ~Recorded(page, idx)
        /\ (triggers' > triggers) => ~Recorded(page, idx) ]_vars

\* C1 witness: in a second run the row before the current one has a record,
\* and the run has entered download_invoice for no row so far
C1_Witness ==
    /\ run = 2
    /\ pc = "row"
    /\ idx > 1
    /\ RowHasIdentity(page, idx - 1)
    /\ Recorded(page, idx - 1)
    /\ stats.total_invoices = 0
    /\ stats.failed_imports = 0

C3_NoMarkerAtReturn ==
    [][(pc = "w_list2" /\ pc' = "dl_rename") => MarkerNames(dlDir') = {}]_vars

\* C4: the path wait_for_new_zip returns is a ".zip" file of the download
\* directory that is not in the baseline listed before the trigger
C4_ReturnedNotInBaseline ==
    pc = "dl_rename" =>
        /\ downloaded_zip \notin existing_zips
        /\ downloaded_zip.ext = "zip"
        /\ Exists(dlDir, downloaded_zip)

\* C4 witness: the watcher has returned although the baseline was not empty
C4_Witness ==
    /\ pc = "dl_rename"
    /\ existing_zips # {}

\* the document store's records under a key
DocRecords(key) == {r \in dbXml : r.key = key}

\* C5: a document is deleted only once a committed DocumentRecord holds its
\* key; no key ever has two records; and when a run completes an ingestion
\* sweep in which no file failed, every document that a kill had left
\* between its insert and its delete is gone and has exactly one record
C5_CommitThenDelete ==
    /\ pc = "ing_remove" => DocRecords(Parts(cur.base)) # {}
    /\ \A r \in dbXml : Cardinality(DocRecords(r.key)) = 1
    /\ (pc \in {"finish", "done"} /\ result \in {"none", "success"}
        /\ "ingest" \notin faulted)
          => \A o \in orphans :
                /\ \A f \in xmlDir : f.base # o.base
                /\ Cardinality(DocRecords(Parts(o.base))) = 1

\* C5 witness: a run has succeeded after a kill between insert and delete
C5_Witness ==
    /\ pc = "done"
    /\ result = "success"
    /\ "ingest" \notin faulted
    /\ orphans # {}

\* the archive being handled holds a document payload
HasPayload(dir, name) == FileOf(dir, name).inv.arch \in {"xml", "partial"}

\* C6: extract_xml_files deletes no archive that holds no document payload
C6_PayloadlessArchiveKept ==
    [][(pc = "ex_remove" /\ ~Exists(dlDir', cur)) => HasPayload(dlDir, cur)]_vars

\* C7: when extract_xml_files deletes an archive, the payload of that
\* archive is in the document directory under the archive's base name
C7_DeletedAfterOwnPayloadMoved ==
    [][(pc = "ex_remove" /\ ~Exists(dlDir', cur))
         => \E f \in xmlDir : /\ f.base = cur.base
                              /\ f.inv = FileOf(dlDir, cur).inv.id]_vars

\* C8: the identity import_xml_to_database recovers from a document's name
\* is the key of the DownloadRecord of the archive the document comes from
C8_IngestedIdentityIsRecorded ==
    pc = "ing_insert" =>
        \A r \in dbDownloads :
            r.filename = Name(cur.base, "zip") => r.key = Parts(cur.base)

\* C9: after a run that started from empty areas and returned success with
\* no row, archive or file failure, no archive is left in the download
\* directory and no document in the document directory
C9_AreasEmptyAfterSuccess ==
    (run = 1 /\ pc = "done" /\ result = "success" /\ faulted = {})
        => (ZipNames(dlDir) = {} /\ xmlDir = {})

\* the identities of the table's data rows
TableIds ==
    UNION {{Identity(table[p][i]) :
              i \in {j \in 1..Len(table[p]) : RowHasIdentity(p, j) /\ table[p][j].text}} :
           p \in 1..Len(table)}

\* the identities that had a DownloadRecord when the current run started
RecordedBefore ==
    {k \in TableIds : \E r \in dbDownloads : r.key = k /\ r.at < run}

\* C10: a run that started from empty areas and met no failure, over a table
\* of N distinct data rows, D of them recorded before, makes N-D download
\* attempts, inserts N-D DownloadRecords, produces N-D archives, extracts
\* N-D documents, inserts N-D DocumentRecords and leaves both areas empty
C10_EndToEndCounts ==
    (run = 1 /\ pc = "done" /\ result = "success" /\ faulted = {})
        => LET n == Cardinality(TableIds) - Cardinality(RecordedBefore)
           IN  /\ triggers = n
               /\ newRecs = n
               /\ produced = n
               /\ extracted_count = n
               /\ newDocs = n
               /\ ZipNames(dlDir) = {}
               /\ xmlDir = {}

\* C11: in each tracking store no two records share a key (numero_documento,
\* emisor, valor_total), whatever was inserted by whichever run
C11_KeyDeterminesOneRecord ==
    /\ \A r1, r2 \in dbDownloads : r1.key = r2.key => r1 = r2
    /\ \A r1, r2 \in dbXml : r1.key = r2.key => r1 = r2

\* C11 witness: a second run has just executed the insert for a document
\* whose key the first run had already stored
C11_Witness ==
    /\ run = 2
    /\ pc = "ing_remove"
    /\ dbDownloads # {}
    /\ \E r \in dbXml : r.key = SplitMax(cur.base, "_", 2) /\ r.at = 1

\* C12: a run that follows a killed run and completes without any failure
\* ends as an uninterrupted run does: every invoice of the table has its
\* DownloadRecord, there are no more DocumentRecords than invoices, and no
\* archive or document is left over
C12_ResumedRunAddsNothingExtra ==
    (run = 2 /\ killedAt # "none" /\ pc = "done" /\ result = "success"
     /\ faulted = {})
        => /\ Keys(dbDownloads) = TableIds
           /\ Cardinality(dbDownloads) = Cardinality(TableIds)
           /\ Cardinality(dbXml) <= Cardinality(TableIds)
           /\ ZipNames(dlDir) = {}
           /\ xmlDir = {}

\* C13: an exception raised while a row is examined is caught: it adds one
\* to failed_imports and to nothing else, and the loop goes on with the next
\* row of the same page; rows are visited one by one and pages one by one,
\* so that the sweep ends only after the last row of the last page (unless
\* the "next" control could not be activated)
C13_RowExceptionIsolated ==
    [][ /\ ( /\ pc = "row"
             /\ idx <= Len(table[page])
             /\ (faults' < faults \/ CurRow.cols = 8)
             /\ dlDir' = dlDir
             /\ pc' # "done" )
          => ( /\ stats' = [stats EXCEPT !.failed_imports = @ + 1]
               /\ pc' = "row"
               /\ idx' = idx + 1
               /\ page' = page
               /\ result' = result
               /\ dbDownloads' = dbDownloads )
        /\ (idx' # idx /\ pc' # "setup")
              => (idx' = idx + 1 \/ (pc = "page" /\ idx' = 1))
        /\ (page' # page /\ pc' # "setup")
              => (page' = page + 1 /\ idx = Len(table[page]) + 1)
        /\ (pc = "row" /\ pc' = "ex_list" /\ "pages" \notin faulted')
              => (page = Len(table) /\ idx = Len(table[page]) + 1) ]_vars

\* C13 witness: after an exception in the only row of page 1, a row of page 2
\* has been examined and handed to download_invoice
C13_Witness ==
    /\ page = 2
    /\ pc = "dl_start"
    /\ stats.failed_imports = 1
    /\ stats.processed_invoices = 0
    /\ stats.total_invoices = 1

\* C14: a row of fewer than 9 cells is skipped silently: with no failure of
\* the environment, the loop passes it without a trigger and without a
\* change to any counter
C14_ShortRowSkippedSilently ==
    [][ ( /\ pc = "row"
          /\ idx <= Len(table[page])
          /\ CurRow.cols < 9
          /\ faults' = faults
          /\ idx' # idx )
          => ( /\ stats' = stats
               /\ triggers' = triggers
               /\ pc' = "row"
               /\ faulted' = faulted ) ]_vars

\* C15: when download_invoice returns to the row loop from the dismissal of
\* the dialog, whether or not the dismissal failed, the row is counted as
\* successful, not as failed, and its DownloadRecord is in the store
C15_DismissFailureIgnored ==
    [][ (pc = "dl_dismiss" /\ pc' = "row")
          => ( /\ stats'.successful_imports = stats.successful_imports + 1
               /\ stats'.failed_imports = stats.failed_imports
               /\ Identity(CurRow) \in Keys(dbDownloads') ) ]_vars

\* C16: when wait_for_new_zip times out, download_invoice returns False: the
\* row is counted as processed and failed, the download store is unchanged
\* and holds no record for the row, the run goes on with the next row and
\* its result is not decided
C16_TimeoutIsRowLevel ==
    [][ ( /\ pc = "w_head"
          /\ pc' \notin {"w_head", "w_list1"}
          /\ result' # "killed" )
          => ( /\ pc' = "row"
               /\ idx' = idx + 1
               /\ page' = page
               /\ result' = result
               /\ stats' = [stats EXCEPT !.failed_imports = @ + 1,
                                         !.processed_invoices = @ + 1]
               /\ dbDownloads' = dbDownloads
               /\ Identity(CurRow) \notin Keys(dbDownloads') ) ]_vars

\* C16 witness: row 1 was triggered and timed out, no record was inserted
\* for it, and row 2 has been handed to download_invoice
C16_Witness ==
    /\ pc = "dl_start"
    /\ idx = 2
    /\ triggers = 1
    /\ polled
    /\ stats.failed_imports = 1
    /\ stats.processed_invoices = 1
    /\ Identity(table[page][1]) \notin Keys(dbDownloads)

\* the positions of the three sweeps
RowPcs == {"page", "row"} \cup DlPcs
ExPcs == {"ex_list", "ex_pick", "ex_unpack", "ex_scan", "ex_rmtree", "ex_remove"}
IngPcs == {"ing_list", "ing_pick", "ing_insert", "ing_remove"}

\* C17: a document whose base name splits into fewer than 3 parts is skipped
\* by import_xml_to_database: the sweep never reaches the insert or the
\* delete for it, passes it without touching the store or the directory,
\* and the file stays in the document directory throughout the sweep
C17_MalformedNameLeftInPlace ==
    [][ /\ pc \in {"ing_insert", "ing_remove"}
              => Len(SplitMax(cur.base, "_", 2)) >= 3
        /\ (pc = "ing_pick" /\ todo' # todo
            /\ Len(SplitMax(cur'.base, "_", 2)) < 3)
              => (pc' = "ing_pick" /\ xmlDir' = xmlDir /\ dbXml' = dbXml)
        /\ pc \in IngPcs
              => \A f \in xmlDir :
                    Len(SplitMax(f.base, "_", 2)) < 3 => f \in xmlDir' ]_vars

\* C17 witness: the ingestion sweep has ended and a document with a name of
\* fewer than 3 parts is still in the document directory
C17_Witness ==
    /\ pc = "finish"
    /\ \E f \in xmlDir : Len(SplitMax(f.base, "_", 2)) < 3

\* C18: whenever extract_xml_files has finished with an archive, whatever
\* the outcome, the scratch directory does not exist
C18_ScratchRemovedAfterEachArchive ==
    [][ (pc \in {"ex_unpack", "ex_scan", "ex_rmtree", "ex_remove"}
         /\ pc' = "ex_pick")
          => ~scratch'.exists ]_vars

\* C19: when page 1 shows no row with text, the poll of process_invoice_rows
\* ends the run: its result is a failure, no row has been examined, no
\* counter has moved, neither store and no directory has changed, and
\* neither extraction nor ingestion is entered
C19_EmptyResultIsFatal ==
    [][ ( /\ pc = "wait_rows"
          /\ \A i \in 1..Len(table[1]) : ~table[1][i].text
          /\ pc' # pc )
          => ( /\ pc' = "done"
               /\ result' \in {"Failed to process invoice rows", "killed"}
               /\ stats' = ZeroStats
               /\ triggers' = 0
               /\ idx' = 1
               /\ dbDownloads' = dbDownloads
               /\ dbXml' = dbXml
               /\ dlDir' = dlDir
               /\ scratch' = scratch
               /\ xmlDir' = xmlDir ) ]_vars

\* C19 witness: a first run over a table whose page 1 holds only placeholder
\* rows has failed without any failure of the environment
C19_Witness ==
    /\ run = 1
    /\ pc = "done"
    /\ result = "Failed to process invoice rows"
    /\ faults > 0
    /\ \A i \in 1..Len(table[1]) : ~table[1][i].text

\* C20: extraction is entered only from the end of the page loop, after the
\* last row of the page the loop ended at (the last page, unless the "next"
\* control could not be activated); ingestion is entered only when the
\* extraction sweep has visited every archive of its listing; no sweep is
\* re-entered once a later one has begun; archives are unpacked only during
\* extraction and DocumentRecords inserted only during ingestion
C20_PhasesDoNotOverlap ==
    [][ /\ (pc' \in ExPcs /\ pc \notin ExPcs)
              => ( /\ pc = "row"
                   /\ idx = Len(table[page]) + 1
                   /\ "pages" \notin faulted' => page = Len(table) )
        /\ (pc' \in IngPcs /\ pc \notin IngPcs)
              => (pc = "ex_pick" /\ todo = {})
        /\ pc \in ExPcs \cup IngPcs \cup {"finish"} => pc' \notin RowPcs
        /\ pc \in IngPcs \cup {"finish"} => pc' \notin ExPcs
        /\ scratch' # scratch => pc \in ExPcs
        /\ dbXml' # dbXml => pc \in IngPcs
        /\ dbDownloads' # dbDownloads => pc \in RowPcs \cup {"wait_rows"} ]_vars

\* C20 witness: a table of two pages has been swept to its last page, every
\* archive produced has been extracted and deleted, and ingestion is at work
C20_Witness ==
    /\ pc = "ing_insert"
    /\ Len(table) >= 2
    /\ page = Len(table)
    /\ produced >= 2
    /\ extracted_count = produced
    /\ ZipNames(dlDir) = {}

\* C21: a process that has ended on any path of main (rejected invocation,
\* failed phase, success) has printed exactly one RESULT record; the record
\* carries the success flag and the four counters (the run's counters, or
\* zeros when no run started); the exit status is 0 exactly when the flag is
\* true; and a process still running has printed no RESULT record
C21_OneResultAndExitStatus ==
    /\ (pc = "done" /\ result # "killed")
          => /\ Len(results) = 1
             /\ results[1].success = (result = "success")
             /\ results[1].success \/ results[1].error = result
             /\ results[1].stats =
                   IF result \in MainErrors THEN ZeroStats ELSE stats
             /\ DOMAIN results[1].stats =
                   {"total_invoices", "processed_invoices",
                    "successful_imports", "failed_imports"}
             /\ (exit_status = 0) = results[1].success
             /\ exit_status \in {0, 1}
    /\ pc # "done" => (results = <<>> /\ exit_status = -1)

\* C21 witness: a run that had counted a successful row failed in a later
\* phase and the process has ended with its RESULT record and status 1
C21_Witness ==
    /\ pc = "done"
    /\ result = "Failed to extract XML files"
    /\ Len(results) = 1
    /\ results[1].stats.successful_imports > 0
    /\ exit_status = 1

\* C22: normalizing an already normalized issuer, and an already normalized
\* total value, returns the same string
C22_NormalizationIdempotent ==
    Len(norm) = 2 => norm[2] = norm[1]

\* C23: for the row of identity ("INV-001", "Acme_Corp", "12345") the archive
\* is named INV-001_Acme_Corp.zip, the document INV-001_Acme_Corp.xml, and
\* the capped split of the document's base name is ("INV-001", "Acme", "Corp")
C23_FilenameRoundTrip ==
    ( /\ names # NoNames
      /\ Identity(arg) = << <<"I", "N", "V", "-", "0", "0", "1">>,
                            <<"A", "c", "m", "e", "_", "C", "o", "r", "p">>,
                            <<"1", "2", "3", "4", "5">> >> )
      => ( /\ names.archive =
                Name(<<"I", "N", "V", "-", "0", "0", "1", "_",
                       "A", "c", "m", "e", "_", "C", "o", "r", "p">>, "zip")
           /\ names.document =
                Name(<<"I", "N", "V", "-", "0", "0", "1", "_",
                       "A", "c", "m", "e", "_", "C", "o", "r", "p">>, "xml")
           /\ names.parts = << <<"I", "N", "V", "-", "0", "0", "1">>,
                               <<"A", "c", "m", "e">>,
                               <<"C", "o", "r", "p">> >> )

\* C23 witness: the names have been derived for the row of that identity
C23_Witness ==
    /\ names # NoNames
    /\ arg = RowINV
    /\ Identity(arg)[2] = <<"A", "c", "m", "e", "_", "C", "o", "r", "p">>
    /\ Len(names.parts) = 3

\* C24: a listed row whose visible text is empty is not handed to the row
\* processor: with no failure of the environment the loop passes it without
\* a dedup query, a trigger or a change to any counter
C24_PlaceholderRowNotProcessed ==
    [][ ( /\ pc = "row"
          /\ idx <= Len(table[page])
          /\ ~CurRow.text
          /\ faults' = faults
          /\ dlDir' = dlDir )
          => ( /\ stats' = stats
               /\ triggers' = triggers
               /\ pc' = "row"
               /\ idx' = idx + 1 ) ]_vars

\* C25: a row is counted in successful_imports only when download_invoice
\* returns from its last step: the download control was clicked in this run,
\* the archive is in the download directory under the canonical name or a
\* suffixed form of it, and the store holds the DownloadRecord this run
\* inserted for the row's identity with that file name; so the rows counted
\* successful never outnumber the records inserted
C25_SuccessImpliesRecord ==
    [][ /\ stats'.successful_imports > stats.successful_imports
          => ( /\ pc = "dl_dismiss"
               /\ pc' = "row"
               /\ faults' = faults
               /\ stats'.successful_imports = stats.successful_imports + 1
               /\ triggers >= 1
               /\ Exists(dlDir, downloaded_zip)
               /\ \/ downloaded_zip = Canonical(CurRow)
                  \/ \E k \in 1..Len(Digits) :
                        downloaded_zip = Suffixed(Canonical(CurRow), k)
               /\ \E r \in dbDownloads' :
                     /\ r.key = Identity(CurRow)
                     /\ r.at = run
                     /\ r.filename = downloaded_zip )
        /\ stats.successful_imports <= newRecs ]_vars

\* C25 witness: row 1 has been counted successful and its record is stored
C25_Witness ==
    /\ pc = "row"
    /\ idx = 2
    /\ stats.successful_imports = 1
    /\ stats.failed_imports = 0
    /\ newRecs = 1
    /\ \E r \in dbDownloads : r.key = Identity(table[page][1]) /\ r.at = run

\* C26: when the last row of the last page has been passed (no enabled
\* "next" control), the page loop ends at once and the sweep goes on to
\* extraction with its result undecided and no counter changed; pages are
\* entered one after the other, each from the end of the one before, so
\* none is visited twice; a loop that ended without a failure to activate
\* "next" has swept every page; and once the loop has ended no row is
\* processed in that run
C26_PaginationVisitsEachPageOnce ==
    [][ /\ ( /\ pc = "row"
             /\ idx > Len(table[page])
             /\ page = Len(table)
             /\ faults' = faults
             /\ dlDir' = dlDir )
          => (pc' = "ex_list" /\ result' = result /\ stats' = stats)
        /\ (page' # page /\ pc' # "setup")
              => ( /\ page' = page + 1
                   /\ pc = "row"
                   /\ idx = Len(table[page]) + 1
                   /\ pc' = "page" )
        /\ (pc' = "page" /\ pc # "page")
              => ((pc = "wait_rows" /\ page = 1) \/ page' = page + 1)
        /\ (pc \in RowPcs /\ pc' \in ExPcs /\ "pages" \notin faulted')
              => (page = Len(table) /\ idx = Len(table[page]) + 1)
        /\ pc \in ExPcs \cup IngPcs \cup {"finish"}
              => ( /\ pc' \notin RowPcs
                   /\ stats' = stats
                   /\ triggers' = triggers
                   /\ dbDownloads' = dbDownloads ) ]_vars

\* C26 witness: a table of three pages has been swept to the end of its last
\* page, rows of the first and of the last page have been processed, and the
\* loop has ended
C26_Witness ==
    /\ pc = "ex_list"
    /\ Len(table) = 3
    /\ page = 3
    /\ "pages" \notin faulted
    /\ stats.processed_invoices >= 2

\* C27: on a page without data rows that is not the last page, with no
\* failure of the environment, the row loop changes no counter and no
\* store, passes every listed row and advances to the next page
C27_EmptyPageJustAdvances ==
    [][ ( /\ pc = "row"
          /\ \A i \in 1..Len(table[page]) : ~table[page][i].text
          /\ page < Len(table)
          /\ faults' = faults
          /\ dlDir' = dlDir )
          => ( /\ stats' = stats
               /\ dbDownloads' = dbDownloads
               /\ \/ (idx <= Len(table[page]) /\ pc' = "row" /\ idx' = idx + 1)
                  \/ (idx > Len(table[page]) /\ pc' = "page"
                      /\ page' = page + 1) ) ]_vars

\* C28: the rename of the downloaded archive takes a name that was free, so
\* that every other file of the directory is still there with its content;
\* the name is the canonical name if that was free, otherwise the canonical
\* name with the smallest suffix _k, k >= 1, that was free; afterwards the
\* source name is gone and the file under the new name has its content
C28_SafeRenameCollisionSafe ==
    [][ (pc = "dl_rename" /\ pc' = "dl_insert")
          => LET src == downloaded_zip
                 dest == Canonical(CurRow)
                 final == downloaded_zip'
             IN  /\ ~Exists(dlDir, final)
                 /\ \A i \in 1..Len(dlDir) :
                       dlDir[i].name # src
                          => \E j \in 1..Len(dlDir') : dlDir'[j] = dlDir[i]
                 /\ ~Exists(dlDir, dest) => final = dest
                 /\ Exists(dlDir, dest)
                       => \E k \in 1..Len(Digits) :
                             /\ final = Suffixed(dest, k)
                             /\ \A j \in 1..(k - 1) : Exists(dlDir, Suffixed(dest, j))
                 /\ ~Exists(dlDir', src)
                 /\ Exists(dlDir', final)
                 /\ FileOf(dlDir', final).inv = FileOf(dlDir, src).inv ]_vars

\* C28 witness: an archive has been renamed to the canonical name with
\* suffix _2 because the canonical name and suffix _1 were taken
C28_Witness ==
    /\ pc = "dl_insert"
    /\ downloaded_zip = Suffixed(Canonical(CurRow), 2)
    /\ Exists(dlDir, Canonical(CurRow))
    /\ Exists(dlDir, Suffixed(Canonical(CurRow), 1))

\* C29: no step removes or changes a record of either store; an insert of
\* a record whose key is already stored leaves the store as it was and
\* raises no error: the import goes on to the removal of the document
C29_StoresAppendOnly ==
    [][ /\ dbDownloads \subseteq dbDownloads'
        /\ dbXml \subseteq dbXml'
        /\ ( /\ pc = "ing_insert"
             /\ SplitMax(cur.base, "_", 2) \in {r.key : r \in dbXml}
             /\ faults' = faults )
              => (dbXml' = dbXml /\ pc' = "ing_remove") ]_vars

\* C29 witness: in a second run a document whose key the first run stored
\* has been inserted again, and the store holds only what the first run
\* wrote
C29_Witness ==
    /\ pc = "ing_remove"
    /\ run = 2
    /\ SplitMax(cur.base, "_", 2) \in {r.key : r \in dbXml}
    /\ dbXml # {}
    /\ \A r \in dbXml : r.at = 1

\* the phases whose failure is fatal, and the errors each of them reports
FatalPcs == {"setup", "wait_rows", "page", "ex_list", "ing_list"}

ErrorsAt(p) ==
    CASE p = "setup" -> {"Failed to setup WebDriver", "Failed to login to ERP",
                         "Failed to navigate to invoices"}
      [] p \in {"wait_rows", "page"} -> {"Failed to process invoice rows"}
      [] p = "ex_list" -> {"Failed to extract XML files"}
      [] p = "ing_list" -> {"Failed to import XML to database"}
      [] OTHER -> {}

\* C30: a failure in the setup, the login, the navigation, the location of
\* the table, the extraction or the ingestion as a whole ends the run in
\* that step: no store and no directory is changed by it, the one result
\* written has success false and the error of the phase that failed; a run
\* fails only in one of these phases, and after its end nothing is changed
\* until the next run starts
C30_FatalFailureAborts ==
    [][ /\ (pc \in FatalPcs /\ faults' < faults) => pc' = "done"
        /\ (pc \in FatalPcs /\ pc' = "done" /\ result' # "killed")
              => ( /\ result' \in ErrorsAt(pc)
                   /\ Len(results') = 1
                   /\ ~results'[1].success
                   /\ results'[1].error = result'
                   /\ exit_status' = 1
                   /\ UNCHANGED <<dbDownloads, dbXml, dlDir, xmlDir, scratch,
                                  stats, countVars>> )
        /\ (pc' = "done" /\ pc \notin {"done", "idle"}
              /\ result' \notin {"success", "killed"})
              => pc \in FatalPcs
        /\ pc = "done"
              => ( /\ pc' \in {"done", "setup"}
                   /\ UNCHANGED <<dbDownloads, dbXml, dlDir, xmlDir, scratch>> ) ]_vars

\* C30 witness: the ingestion failed as a whole after the extraction had
\* written documents; the run ended with that error, the documents are
\* still in the output directory and nothing was ingested
C30_Witness ==
    /\ pc = "done"
    /\ result = "Failed to import XML to database"
    /\ extracted_count > 0
    /\ xmlDir # {}
    /\ imported_count = 0
    /\ Len(results) = 1
    /\ ~results[1].success

\* the steps that handle one archive, and one document file
ExItemPcs == {"ex_unpack", "ex_scan", "ex_rmtree", "ex_remove"}

IngItemPcs == {"ing_insert", "ing_remove"}

\* C31: a failure while one archive or one document file is handled sends
\* the sweep back to its listing with the rest of the listing untouched and
\* the result of the run undecided; the sweep takes the listed items one by
\* one and ends only when the listing is exhausted; and once its listing
\* was made a sweep never ends the run with an error
C31_ItemFailureIsolated ==
    [][ /\ ( /\ pc \in ExItemPcs \cup IngItemPcs
             /\ faulted' # faulted )
              => ( /\ pc' = (IF pc \in ExItemPcs THEN "ex_pick" ELSE "ing_pick")
                   /\ todo' = todo
                   /\ result' = result
                   /\ results' = results )
        /\ (pc \in {"ex_pick", "ing_pick"} /\ pc' \notin {pc, "done"})
              => \/ todo = {} /\ pc' = (IF pc = "ex_pick" THEN "ing_list" ELSE "finish")
                 \/ /\ cur' \in todo
                    /\ todo' = todo \ {cur'}
                    /\ pc' = (IF pc = "ex_pick" THEN "ex_unpack" ELSE "ing_insert")
        /\ (pc \in {"ex_pick", "ing_pick"} \cup ExItemPcs \cup IngItemPcs /\ pc' = "done")
              => result' = "killed" ]_vars

\* C31 witness: the last archive of the listing has been unpacked and its
\* document moved after the handling of an earlier archive of the same
\* sweep had failed
C31_Witness ==
    /\ pc = "ex_remove"
    /\ "extract" \in faulted
    /\ xml_found
    /\ todo = {}
    /\ \E i \in 1..Len(dlDir) : dlDir[i].name # cur /\ dlDir[i].name.ext = "zip"

\* C32: the archive that download_invoice has renamed and is about to
\* record for a row is the one the browser produced for that row's own
\* download trigger
C32_ArchiveIsOwnRows ==
    pc = "dl_insert" =>
        FileOf(dlDir, downloaded_zip).inv.id = Identity(CurRow)

\* C33: the document that the scan of the scratch directory moves into the
\* document directory under the base name of the archive being handled is
\* the payload of that archive
C33_MovedPayloadIsOwn ==
    [][ (pc = "ex_scan" /\ pc' = "ex_rmtree" /\ xml_found')
          => \E f \in xmlDir' : /\ f.base = cur.base
                                /\ f.inv = FileOf(dlDir, cur).inv.id ]_vars

\* C34: between two rows of the row loop, the rows processed are the
\* successes plus the failures, and no more rows are processed than were
\* counted in the total
C34_CountersConsistent ==
    pc = "row" =>
        /\ stats.processed_invoices = stats.successful_imports + stats.failed_imports
        /\ stats.processed_invoices <= stats.total_invoices

\* C35: within one run the percentage of every progress record emitted is
\* in 0..100 and is not below the percentage of the record before it
C35_ProgressMonotone ==
    [][ pc' # "setup" => (progress' \in 0..100 /\ progress' >= progress) ]_vars

=============================================================================
